---- MODULE Spec2Model ----
(***************************************************************************)
(* Internify: a concurrent interning pool (scc::Internify<T, HashFunc>).   *)
(*                                                                         *)
(* The repository holds three drafts of the pool:                          *)
(*   "shared_ptr"   src/internify.hpp: internify/find return               *)
(*                  std::shared_ptr<T>, release and erase are public;      *)
(*   "handle"       src/unnamed/part_001: internify/find return the        *)
(*                  move-only InternedPtr, release is private, no erase;   *)
(*   "handle_erase" src/CMakeLists.txt lines 95-277: as "handle", plus a   *)
(*                  public erase.                                          *)
(* The variable `variant` fixes which draft a behaviour runs.              *)
(***************************************************************************)
EXTENDS Integers, FiniteSets, Sequences, TLC

\* ------------------------------------------------------------ bounds
NumThreads == 2
MaxHandles == 2
MaxAddr == 2
MaxCalls == 2
MaxRefs == 2
MaxLines == 2

\* --------------------------------------------------------- constants
NULL == 0
NoThread == 0

Threads == 1 .. NumThreads
Slots == 1 .. MaxHandles
Addr == 1 .. MaxAddr
Values == {"a", "b", "c"}
NoValue == "none"
Variants == {"shared_ptr", "handle", "handle_erase"}

VARIABLES
    variant,          \* which draft of the pool runs
    m_interningMap,   \* HashedValue -> address of the InterningNode, or NULL
    heap,             \* address -> the InterningNode stored there
    m_mutex,          \* the std::shared_mutex: its writer and its readers
    handles,          \* the callers' InternedPtr / shared_ptr<T> objects
    th,               \* each thread's position in the call it runs
    calls,            \* shared_ptr draft: completed calls per value
    driver            \* the batch driver's position in its input and its loops

vars == <<variant, m_interningMap, heap, m_mutex, handles, th, calls, driver>>

\* ------------------------------------------------------- data model
\* HashFunc: the pluggable hash.  It is not injective: "a" and "b" collide.
hashValue(v) == IF v = "c" THEN 2 ELSE 1

Keys == {hashValue(v) : v \in Values}

\* A heap cell: free, or the storage of one InterningNode.
FreeCell == [used |-> FALSE, value |-> NoValue, refCount |-> 0]

\* Not the code: a node constructed with refCount 0.
InterningNode_zero(val) == [used |-> TRUE, value |-> val, refCount |-> 0]

\* InterningNode(val): value(val), refCount(1)
InterningNode(val) == [used |-> TRUE, value |-> val, refCount |-> 1]

\* A caller's variable: no object, a slot reserved for a call's result, or an
\* object.  Three entries are history, not fields: forv (the value the
\* reference was asked for), by (what wrote the fields: the path that
\* returned the reference, "findExisting", "insertNew" for a node created,
\* "try_emplace" for insertNew on an occupied key, "find"; or the reset()
\* that cleared them, "released" after Internify::release, "moved" in a
\* moved-from object, "again" when release() ran on such an object once
\* more) and stale (the Entry the reference was issued for has left the
\* table).
NoHandle ==
    [state |-> "none", m_owner |-> FALSE, m_ptr |-> NULL,
     forv |-> NoValue, by |-> "none", stale |-> FALSE]

PendingHandle == [NoHandle EXCEPT !.state = "pending"]

\* InternedPtr(Internify *owner, const T *ptr)
InternedPtr(owner, ptr, v, path) ==
    [state |-> "obj", m_owner |-> owner, m_ptr |-> ptr,
     forv |-> v, by |-> path, stale |-> FALSE]

\* InternedPtr::reset: m_owner = nullptr, m_ptr = nullptr
reset(hd, how) == [hd EXCEPT !.m_owner = FALSE, !.m_ptr = NULL,
                             !.forv = NoValue, !.by = how, !.stale = FALSE]

\* release() on an object that holds nothing: a second release() of a
\* released or moved-from object is recorded, a find miss stays a find miss.
Again(hd) == IF hd.by \in {"released", "moved", "again"} THEN "again" ELSE hd.by

\* InternedPtr::is_valid
is_valid(hd) == hd.state = "obj" /\ hd.m_ptr # NULL /\ hd.m_owner

IdleThread == [pc |-> "idle", arg |-> NoValue, h |-> 0, src |-> 0, cont |-> "none"]

NoCalls == [v \in Values |-> 0]

\* The history of completed calls, kept only by the specification that
\* counts them (SpecCalls).
\* owed: the counted references handed out in InternedPtr objects, less the
\* Internify::release calls InternedPtr objects have made.
NotCounting ==
    [on |-> FALSE, interned |-> NoCalls, released |-> NoCalls, missed |-> NoCalls,
     owed |-> 0]

HandleDrafts == {"handle", "handle_erase"}

\* size(): m_interningMap.size()
size == Cardinality({k \in Keys : m_interningMap[k] # NULL})

Unlocked == [writer |-> NoThread, readers |-> {}]

\* No batch driver runs: the pool is used by the threads directly.
NoDriver ==
    [pc |-> "off", base_string |-> NoValue, multiplier |-> 0, i |-> 0, h |-> 0,
     lines |-> 0, interned |-> NoCalls, negatives |-> 0]

\* The state after construction: an empty pool, no caller holds anything.
Start(history) ==
    /\ variant \in Variants
    /\ m_interningMap = [k \in Keys |-> NULL]
    /\ heap = [a \in Addr |-> FreeCell]
    /\ m_mutex = Unlocked
    /\ handles = [s \in Slots |-> NoHandle]
    /\ th = [t \in Threads |-> IdleThread]
    /\ calls = history
    /\ driver = NoDriver

Init == Start(NotCounting)

\* ------------------------------------------------------------ helpers
FreeSlots == {s \in Slots : handles[s].state = "none"}

Min(S) == CHOOSE x \in S : \A y \in S : x <= y

Sum(f) == f["a"] + f["b"] + f["c"]

\* The references the table's nodes count.
TotalRefs ==
    LET RECURSIVE Refs(_)
        Refs(K) == IF K = {} THEN 0
                   ELSE LET k == CHOOSE x \in K : TRUE
                        IN (IF m_interningMap[k] = NULL THEN 0
                            ELSE heap[m_interningMap[k]].refCount) + Refs(K \ {k})
    IN Refs(Keys)

InFlight(pcs) == Cardinality({t \in Threads : th[t].pc \in pcs})

\* A slot some thread's running call works on.
Busy(s) == \E t \in Threads : th[t].pc # "idle" /\ (th[t].h = s \/ th[t].src = s)

\* Fault: a shared lock that does not wait for the writer.
lock_shared_nowait(t) ==
    m_mutex' = [m_mutex EXCEPT !.readers = @ \cup {t}]

\* std::shared_lock lock(m_mutex)
lock_shared(t) ==
    /\ m_mutex.writer = NoThread
    /\ m_mutex' = [m_mutex EXCEPT !.readers = @ \cup {t}]

\* Not the code: an exclusive lock that waits for the writer but not for the
\* readers inside.
lock_unique_nowait(t) ==
    /\ m_mutex.writer = NoThread
    /\ m_mutex' = [m_mutex EXCEPT !.writer = t]

\* std::unique_lock lock(m_mutex)
lock_unique(t) ==
    /\ m_mutex = Unlocked
    /\ m_mutex' = [m_mutex EXCEPT !.writer = t]

\* the lock's destructor at the end of the function
unlock(t) ==
    m_mutex' = [writer |-> IF m_mutex.writer = t THEN NoThread ELSE m_mutex.writer,
                readers |-> m_mutex.readers \ {t}]

\* Not the code: the value's storage goes with the node in every draft, as
\* with a value held by the node itself.
Removed_freed(cell, a, hs) == FreeCell

\* The cell of a removed node: in the shared_ptr draft the value's storage
\* lives on while a caller's shared_ptr<T> holds it.
Removed(cell, a, hs) ==
    IF variant = "shared_ptr" /\ \E s \in Slots : hs[s].m_ptr = a
    THEN [cell EXCEPT !.refCount = 0]
    ELSE FreeCell

\* Callers' references after the node at address a has left the table.
MarkStale(hs, a) ==
    [s \in Slots |-> IF hs[s].m_ptr = a THEN [hs[s] EXCEPT !.stale = TRUE] ELSE hs[s]]

\* The addresses operator new may return: a free cell some dangling handle
\* still points to, or a free cell nothing points to.  The latter are
\* interchangeable, so the lowest stands for them all.
Fresh ==
    LET free == {a \in Addr : ~heap[a].used}
        pointed == {a \in free : \E s \in Slots : handles[s].m_ptr = a}
    IN pointed \cup (IF free \ pointed = {} THEN {} ELSE {Min(free \ pointed)})

\* ------------------------------------------------------- internify
\* The caller's variable for a call's result; none when the caller drops
\* the result at once, as `intern.internify(str);` does with a shared_ptr.
NoSlot == 0

Reserve(t, pc, v, keep) ==
    /\ keep => FreeSlots # {}
    /\ variant \in HandleDrafts => keep
    /\ LET s == IF keep THEN Min(FreeSlots) ELSE NoSlot IN
         /\ handles' = IF keep THEN [handles EXCEPT ![s] = PendingHandle] ELSE handles
         /\ th' = [th EXCEPT ![t] = [IdleThread EXCEPT !.pc = pc, !.arg = v, !.h = s]]

\* The call's result reaches the caller's variable.
Give(t, hd) ==
    IF th[t].h = NoSlot THEN handles ELSE [handles EXCEPT ![th[t].h] = hd]

\* internify(value): the call enters findExisting
internify(t, v, keep) ==
    /\ th[t].pc = "idle"
    /\ variant = "shared_ptr" =>
          LET running == InFlight({"findExisting_cs", "insertNew", "insertNew_cs"})
          IN IF calls.on THEN Sum(calls.interned) + running < MaxCalls
                         ELSE TotalRefs + running < MaxRefs
    /\ Reserve(t, "findExisting_cs", v, keep)
    /\ lock_shared(t)
    /\ UNCHANGED <<variant, driver, m_interningMap, heap, calls>>

\* A counted reference leaves the pool in a handle.
Granted == IF variant \in HandleDrafts THEN [calls EXCEPT !.owed = @ + 1] ELSE calls

\* An InternedPtr calls m_owner->release(*m_ptr).
Invoked == [calls EXCEPT !.owed = @ - 1]

\* internify(v) has returned.
Interned(v) == IF calls.on THEN [calls EXCEPT !.interned[v] = @ + 1] ELSE Granted

\* Fault: findExisting returns the storage of a hit without fetch_add(1).
findExisting_uncounted(t) ==
    /\ th[t].pc = "findExisting_cs"
    /\ LET v == th[t].arg
           it == m_interningMap[hashValue(v)]
       IN IF it # NULL
          THEN /\ handles' = Give(t, InternedPtr(variant \in HandleDrafts, it, v,
                                                "findExisting"))
               /\ th' = [th EXCEPT ![t] = IdleThread]
               /\ calls' = Interned(v)
               /\ UNCHANGED heap
          ELSE /\ th' = [th EXCEPT ![t].pc = "insertNew"]
               /\ UNCHANGED <<heap, handles, calls>>
    /\ unlock(t)
    /\ UNCHANGED <<variant, driver, m_interningMap>>

\* findExisting: find, and on a hit fetch_add(1) and return the storage
findExisting(t) ==
    /\ th[t].pc = "findExisting_cs"
    /\ LET v == th[t].arg
           it == m_interningMap[hashValue(v)]
       IN IF it # NULL
          THEN /\ heap' = [heap EXCEPT ![it].refCount = @ + 1]
               /\ handles' = Give(t, InternedPtr(variant \in HandleDrafts, it, v,
                                                "findExisting"))
               /\ th' = [th EXCEPT ![t] = IdleThread]
               /\ calls' = Interned(v)
          ELSE /\ th' = [th EXCEPT ![t].pc = "insertNew"]
               /\ UNCHANGED <<heap, handles, calls>>
    /\ unlock(t)
    /\ UNCHANGED <<variant, driver, m_interningMap>>

insertNew_lock(t) ==
    /\ th[t].pc = "insertNew"
    /\ lock_unique(t)
    /\ th' = [th EXCEPT ![t].pc = "insertNew_cs"]
    /\ UNCHANGED <<variant, driver, m_interningMap, heap, handles, calls>>

\* Fault: insertNew stores its new node over the node an occupied key holds
\* (insert_or_assign where the code has try_emplace).
insertNew_overwrite(t) ==
    /\ th[t].pc = "insertNew_cs"
    /\ LET v == th[t].arg
           hashed == hashValue(v)
       IN IF \A a \in Addr : heap[a].used
          THEN /\ handles' = Give(t, NoHandle)
               /\ UNCHANGED <<heap, m_interningMap, calls>>
          ELSE /\ calls' = Interned(v)
               /\ \E a \in Fresh :
                    /\ heap' = [heap EXCEPT ![a] = InterningNode(v)]
                    /\ m_interningMap' = [m_interningMap EXCEPT ![hashed] = a]
                    /\ handles' = Give(t, InternedPtr(variant \in HandleDrafts,
                                                     a, v, "insertNew"))
    /\ th' = [th EXCEPT ![t] = IdleThread]
    /\ unlock(t)
    /\ UNCHANGED <<variant, driver>>

\* Fault: insertNew returns the node of an occupied key without fetch_add(1).
insertNew_uncounted(t) ==
    /\ th[t].pc = "insertNew_cs"
    /\ LET v == th[t].arg
           hashed == hashValue(v)
           it == m_interningMap[hashed]
       IN IF \A a \in Addr : heap[a].used
          THEN /\ handles' = Give(t, NoHandle)
               /\ UNCHANGED <<heap, m_interningMap, calls>>
          ELSE /\ calls' = Interned(v)
               /\ IF it = NULL
                  THEN \E a \in Fresh :
                         /\ heap' = [heap EXCEPT ![a] = InterningNode(v)]
                         /\ m_interningMap' = [m_interningMap EXCEPT ![hashed] = a]
                         /\ handles' = Give(t, InternedPtr(variant \in HandleDrafts,
                                                          a, v, "insertNew"))
                  ELSE /\ handles' = Give(t, InternedPtr(variant \in HandleDrafts,
                                                        it, v, "try_emplace"))
                       /\ UNCHANGED <<heap, m_interningMap>>
    /\ th' = [th EXCEPT ![t] = IdleThread]
    /\ unlock(t)
    /\ UNCHANGED <<variant, driver>>

\* Not the code: the node is counted or inserted first and the allocation
\* failure comes after, so the call fails with the table changed.
insertNew_partial(t) ==
    /\ th[t].pc = "insertNew_cs"
    /\ LET v == th[t].arg
           hashed == hashValue(v)
           it == m_interningMap[hashed]
       IN /\ \E a \in Addr : ~heap[a].used
          /\ IF it = NULL
             THEN \E a \in Fresh :
                    /\ heap' = [heap EXCEPT ![a] = InterningNode(v)]
                    /\ m_interningMap' = [m_interningMap EXCEPT ![hashed] = a]
             ELSE /\ heap' = [heap EXCEPT ![it].refCount = @ + 1]
                  /\ UNCHANGED m_interningMap
          /\ handles' = Give(t, NoHandle)
    /\ th' = [th EXCEPT ![t] = IdleThread]
    /\ unlock(t)
    /\ UNCHANGED <<variant, driver, calls>>

\* insertNew: std::make_unique<InterningNode>(value) runs first and may throw
\* std::bad_alloc, as it must when the heap is full (the lock unwinds, no
\* handle is made); then try_emplace(hashValue(value), node), and on an
\* occupied key fetch_add(1) on the node that is there
insertNew(t) ==
    /\ th[t].pc = "insertNew_cs"
    /\ LET v == th[t].arg
           hashed == hashValue(v)
           it == m_interningMap[hashed]
       IN \/ /\ handles' = Give(t, NoHandle)
             /\ UNCHANGED <<heap, m_interningMap, calls>>
          \/   /\ \E a \in Addr : ~heap[a].used
               /\ calls' = Interned(v)
               /\ IF it = NULL
                  THEN \E a \in Fresh :
                         /\ heap' = [heap EXCEPT ![a] = InterningNode(v)]
                         /\ m_interningMap' = [m_interningMap EXCEPT ![hashed] = a]
                         /\ handles' = Give(t, InternedPtr(variant \in HandleDrafts,
                                                          a, v, "insertNew"))
                  ELSE /\ heap' = [heap EXCEPT ![it].refCount = @ + 1]
                       /\ handles' = Give(t, InternedPtr(variant \in HandleDrafts,
                                                        it, v, "try_emplace"))
                       /\ UNCHANGED m_interningMap
    /\ th' = [th EXCEPT ![t] = IdleThread]
    /\ unlock(t)
    /\ UNCHANGED <<variant, driver>>

\* ------------------------------------------------------------- find
\* find(value): the call
find_call(t, v, keep) ==
    /\ th[t].pc = "idle"
    /\ Reserve(t, "find_cs", v, keep)
    /\ lock_shared(t)
    /\ UNCHANGED <<variant, driver, m_interningMap, heap, calls>>

\* Fault: find returns the handle of a hit without fetch_add(1), as the find
\* of the shared_ptr draft does.
find_handle_uncounted(t) ==
    /\ variant \in HandleDrafts
    /\ LET v == th[t].arg
           it == m_interningMap[hashValue(v)]
       IN IF it # NULL
          THEN /\ handles' = [handles EXCEPT ![th[t].h] = InternedPtr(TRUE, it, v, "find")]
               /\ calls' = Granted
               /\ UNCHANGED heap
          ELSE /\ handles' = [handles EXCEPT
                    ![th[t].h] = InternedPtr(FALSE, NULL, NoValue, "find")]
               /\ UNCHANGED <<heap, calls>>

\* InternedPtr find(value): a hit does fetch_add(1) and returns a handle, a
\* miss returns InternedPtr(nullptr, nullptr)
find_handle(t) ==
    /\ variant \in HandleDrafts
    /\ LET v == th[t].arg
           it == m_interningMap[hashValue(v)]
       IN IF it # NULL
          THEN /\ heap' = [heap EXCEPT ![it].refCount = @ + 1]
               /\ handles' = [handles EXCEPT ![th[t].h] = InternedPtr(TRUE, it, v, "find")]
               /\ calls' = Granted
          ELSE /\ handles' = [handles EXCEPT
                    ![th[t].h] = InternedPtr(FALSE, NULL, NoValue, "find")]
               /\ UNCHANGED <<heap, calls>>

\* std::shared_ptr<T> find(value): a hit returns it->second->value, a miss
\* nullptr; no refCount changes
\* Not the code: the find of the shared_ptr draft counts a reference for the
\* pointer it returns, as the find of the handle draft does.
find_shared_counted(t) ==
    /\ variant = "shared_ptr"
    /\ LET v == th[t].arg
           it == m_interningMap[hashValue(v)]
       IN IF it # NULL
          THEN /\ handles' = Give(t, InternedPtr(FALSE, it, v, "find"))
               /\ heap' = [heap EXCEPT ![it].refCount = @ + 1]
          ELSE /\ handles' = Give(t, InternedPtr(FALSE, NULL, NoValue, "find"))
               /\ UNCHANGED heap
    /\ UNCHANGED calls

find_shared(t) ==
    /\ variant = "shared_ptr"
    /\ LET v == th[t].arg
           it == m_interningMap[hashValue(v)]
       IN IF it # NULL
          THEN handles' = Give(t, InternedPtr(FALSE, it, v, "find"))
          ELSE handles' = Give(t, InternedPtr(FALSE, NULL, NoValue, "find"))
    /\ UNCHANGED <<heap, calls>>

find(t) ==
    /\ th[t].pc = "find_cs"
    /\ (find_handle(t) \/ find_shared(t))
    /\ th' = [th EXCEPT ![t] = IdleThread]
    /\ unlock(t)
    /\ UNCHANGED <<variant, driver, m_interningMap>>

\* ---------------------------------------------------------- release
\* The public release(value) of the shared_ptr draft.
release_call(t, v) ==
    /\ variant = "shared_ptr"
    /\ th[t].pc = "idle"
    /\ calls.on => Sum(calls.released)
                      + InFlight({"release_cs", "release_erase"}) < MaxCalls
    /\ th' = [th EXCEPT ![t] = [IdleThread EXCEPT !.pc = "release_cs", !.arg = v]]
    /\ lock_unique(t)
    /\ UNCHANGED <<variant, driver, m_interningMap, heap, handles, calls>>

\* *m_ptr: reading freed storage is undefined, any value may come out
Deref(p) == IF p # NULL /\ heap[p].used THEN {heap[p].value} ELSE Values

\* The value release hashes: its argument, or *m_ptr of the handle that calls.
ReleaseArg(t) ==
    IF th[t].cont = "none" THEN {th[t].arg} ELSE Deref(handles[th[t].h].m_ptr)

\* What the caller of Internify::release does when it returns:
\* InternedPtr::release resets the handle, the destructor ends the object,
\* move assignment takes over the source and resets it.
Return(t, hs) ==
    LET h == th[t].h
        src == th[t].src
    IN CASE th[t].cont = "none" -> hs
         [] th[t].cont = "release" -> [hs EXCEPT ![h] = reset(@, "released")]
         [] th[t].cont = "dtor" -> [hs EXCEPT ![h] = NoHandle]
         [] th[t].cont = "assign" -> [hs EXCEPT ![h] = hs[src], ![src] = reset(@, "moved")]

ReleaseCounted(v, found) ==
    IF calls.on
    THEN [calls EXCEPT !.released[v] = @ + 1,
                       !.missed[v] = IF found THEN @ ELSE @ + 1]
    ELSE calls

\* Fault: release leaves the node in the table when fetch_sub returns 1.
release_deferred(t) ==
    /\ th[t].pc = "release_cs"
    /\ \E v \in ReleaseArg(t) :
         LET it == m_interningMap[hashValue(v)] IN
         /\ heap' = IF it = NULL THEN heap ELSE [heap EXCEPT ![it].refCount = @ - 1]
         /\ handles' = Return(t, handles)
         /\ th' = [th EXCEPT ![t] = IdleThread]
         /\ calls' = ReleaseCounted(th[t].arg, it # NULL)
         /\ unlock(t)
    /\ UNCHANGED <<variant, driver, m_interningMap>>

\* Fault: release gives up the lock after fetch_sub returned 1 and erases
\* later.
release_unlocked(t) ==
    /\ th[t].pc = "release_cs"
    /\ \E v \in ReleaseArg(t) :
         LET it == m_interningMap[hashValue(v)] IN
         IF it = NULL
         THEN /\ handles' = Return(t, handles)
              /\ th' = [th EXCEPT ![t] = IdleThread]
              /\ calls' = ReleaseCounted(th[t].arg, FALSE)
              /\ UNCHANGED heap
         ELSE /\ heap' = [heap EXCEPT ![it].refCount = @ - 1]
              /\ IF heap[it].refCount = 1
                 THEN /\ th' = [th EXCEPT ![t].pc = "release_erase", ![t].arg = v]
                      /\ UNCHANGED <<handles, calls>>
                 ELSE /\ handles' = Return(t, handles)
                      /\ th' = [th EXCEPT ![t] = IdleThread]
                      /\ calls' = ReleaseCounted(th[t].arg, TRUE)
    /\ unlock(t)
    /\ UNCHANGED <<variant, driver, m_interningMap>>

\* release: find(hashValue(value)), and on a hit refCount.fetch_sub(1)
release(t) ==
    /\ th[t].pc = "release_cs"
    /\ \E v \in ReleaseArg(t) :
         LET it == m_interningMap[hashValue(v)] IN
         IF it = NULL
         THEN /\ handles' = Return(t, handles)
              /\ th' = [th EXCEPT ![t] = IdleThread]
              /\ calls' = ReleaseCounted(th[t].arg, FALSE)
              /\ unlock(t)
              /\ UNCHANGED heap
         ELSE /\ heap' = [heap EXCEPT ![it].refCount = @ - 1]
              /\ IF heap[it].refCount = 1
                 THEN /\ th' = [th EXCEPT ![t].pc = "release_erase", ![t].arg = v]
                      /\ UNCHANGED <<handles, calls, m_mutex>>
                 ELSE /\ handles' = Return(t, handles)
                      /\ th' = [th EXCEPT ![t] = IdleThread]
                      /\ calls' = ReleaseCounted(th[t].arg, TRUE)
                      /\ unlock(t)
    /\ UNCHANGED <<variant, driver, m_interningMap>>

\* release: fetch_sub returned 1, m_interningMap.erase(it)
release_erase(t) ==
    /\ th[t].pc = "release_erase"
    /\ LET hashed == hashValue(th[t].arg)
           it == m_interningMap[hashed]
       IN /\ m_interningMap' = [m_interningMap EXCEPT ![hashed] = NULL]
          /\ heap' = [heap EXCEPT ![it] = Removed(@, it, handles)]
          /\ handles' = Return(t, MarkStale(handles, it))
    /\ calls' = IF th[t].cont = "none" THEN ReleaseCounted(th[t].arg, TRUE) ELSE calls
    /\ th' = [th EXCEPT ![t] = IdleThread]
    /\ unlock(t)
    /\ UNCHANGED <<variant, driver>>

\* ------------------------------------------------------------ erase
erase_call(t, v) ==
    /\ variant \in {"shared_ptr", "handle_erase"}
    /\ th[t].pc = "idle"
    /\ th' = [th EXCEPT ![t] = [IdleThread EXCEPT !.pc = "erase_cs", !.arg = v]]
    /\ lock_unique(t)
    /\ UNCHANGED <<variant, driver, m_interningMap, heap, handles, calls>>

\* Fault: erase removes the node only when nothing references it.
erase_unreferenced(t) ==
    /\ th[t].pc = "erase_cs"
    /\ LET hashed == hashValue(th[t].arg)
           it == m_interningMap[hashed]
       IN IF it # NULL /\ heap[it].refCount <= 0
          THEN /\ m_interningMap' = [m_interningMap EXCEPT ![hashed] = NULL]
               /\ heap' = [heap EXCEPT ![it] = Removed(@, it, handles)]
               /\ handles' = MarkStale(handles, it)
          ELSE UNCHANGED <<m_interningMap, heap, handles>>
    /\ th' = [th EXCEPT ![t] = IdleThread]
    /\ unlock(t)
    /\ UNCHANGED <<variant, driver, calls>>

\* erase: m_interningMap.erase(hashValue(value))
erase(t) ==
    /\ th[t].pc = "erase_cs"
    /\ LET hashed == hashValue(th[t].arg)
           it == m_interningMap[hashed]
       IN IF it # NULL
          THEN /\ m_interningMap' = [m_interningMap EXCEPT ![hashed] = NULL]
               /\ heap' = [heap EXCEPT ![it] = Removed(@, it, handles)]
               /\ handles' = MarkStale(handles, it)
          ELSE UNCHANGED <<m_interningMap, heap, handles>>
    /\ th' = [th EXCEPT ![t] = IdleThread]
    /\ unlock(t)
    /\ UNCHANGED <<variant, driver, calls>>

\* ------------------------------------------------ InternedPtr objects
Idle(t, s) ==
    /\ th[t].pc = "idle"
    /\ handles[s].state = "obj"
    /\ ~Busy(s)

\* Fault: InternedPtr::release() without its `if (m_owner && m_ptr)`.
InternedPtr_release_unguarded(t, s) ==
    /\ variant \in HandleDrafts
    /\ Idle(t, s)
    /\ th' = [th EXCEPT ![t] = [IdleThread EXCEPT !.pc = "release_cs",
                          !.h = s, !.cont = "release"]]
    /\ lock_unique(t)
    /\ calls' = Invoked
    /\ UNCHANGED <<variant, driver, m_interningMap, heap, handles>>

\* InternedPtr::release(): if (m_owner && m_ptr) m_owner->release(*m_ptr);
\* reset()
InternedPtr_release(t, s) ==
    /\ variant \in HandleDrafts
    /\ Idle(t, s)
    /\ IF handles[s].m_owner /\ handles[s].m_ptr # NULL
       THEN /\ th' = [th EXCEPT ![t] = [IdleThread EXCEPT !.pc = "release_cs",
                              !.h = s, !.cont = "release"]]
            /\ lock_unique(t)
            /\ calls' = Invoked
            /\ UNCHANGED handles
       ELSE /\ handles' = [handles EXCEPT ![s] = reset(@, Again(@))]
            /\ UNCHANGED <<th, m_mutex, calls>>
    /\ UNCHANGED <<variant, driver, m_interningMap, heap>>

\* Fault: ~InternedPtr() does not call release().
InternedPtr_dtor_norelease(t, s) ==
    /\ variant \in HandleDrafts
    /\ Idle(t, s)
    /\ handles' = [handles EXCEPT ![s] = NoHandle]
    /\ UNCHANGED <<variant, driver, m_interningMap, heap, m_mutex, th, calls>>

\* ~InternedPtr(): release(), and the object is gone
InternedPtr_dtor(t, s) ==
    /\ variant \in HandleDrafts
    /\ Idle(t, s)
    /\ IF handles[s].m_owner /\ handles[s].m_ptr # NULL
       THEN /\ th' = [th EXCEPT ![t] = [IdleThread EXCEPT !.pc = "release_cs",
                              !.h = s, !.cont = "dtor"]]
            /\ lock_unique(t)
            /\ calls' = Invoked
            /\ UNCHANGED handles
       ELSE /\ handles' = [handles EXCEPT ![s] = NoHandle]
            /\ UNCHANGED <<th, m_mutex, calls>>
    /\ UNCHANGED <<variant, driver, m_interningMap, heap>>

\* Fault: the move constructor takes other's fields and leaves other as it is.
InternedPtr_move_copy(t, other) ==
    /\ variant \in HandleDrafts
    /\ Idle(t, other)
    /\ FreeSlots # {}
    /\ handles' = [handles EXCEPT ![Min(FreeSlots)] = handles[other]]
    /\ UNCHANGED <<variant, driver, m_interningMap, heap, m_mutex, th, calls>>

\* Fault: the move constructor takes a reference of its own (fetch_add) for
\* the object it builds.
InternedPtr_move_addref(t, other) ==
    /\ variant \in HandleDrafts
    /\ Idle(t, other)
    /\ FreeSlots # {}
    /\ handles' = [handles EXCEPT ![Min(FreeSlots)] = handles[other],
                                  ![other] = reset(@, "moved")]
    /\ heap' = IF handles[other].m_ptr # NULL
               THEN [heap EXCEPT ![handles[other].m_ptr].refCount = @ + 1]
               ELSE heap
    /\ UNCHANGED <<variant, driver, m_interningMap, m_mutex, th, calls>>

\* InternedPtr(InternedPtr &&other): take other's fields, other.reset()
InternedPtr_move(t, other) ==
    /\ variant \in HandleDrafts
    /\ Idle(t, other)
    /\ FreeSlots # {}
    /\ handles' = [handles EXCEPT ![Min(FreeSlots)] = handles[other],
                                  ![other] = reset(@, "moved")]
    /\ UNCHANGED <<variant, driver, m_interningMap, heap, m_mutex, th, calls>>

\* Not the code: move assignment without the test this != &other.
InternedPtr_assign_noselfcheck(t, this, other) ==
    /\ variant \in HandleDrafts
    /\ Idle(t, this)
    /\ Idle(t, other)
    /\ IF handles[this].m_owner /\ handles[this].m_ptr # NULL
       THEN /\ th' = [th EXCEPT ![t] = [IdleThread EXCEPT !.pc = "release_cs",
                         !.h = this, !.src = other, !.cont = "assign"]]
            /\ lock_unique(t)
            /\ calls' = Invoked
            /\ UNCHANGED handles
       ELSE /\ handles' = [handles EXCEPT ![this] = handles[other],
                                          ![other] = reset(@, "moved")]
            /\ UNCHANGED <<th, m_mutex, calls>>
    /\ UNCHANGED <<variant, driver, m_interningMap, heap>>

\* Not the code: move assignment overwrites the destination's fields without
\* releasing the reference the destination holds.
InternedPtr_assign_norelease(t, this, other) ==
    /\ variant \in HandleDrafts
    /\ Idle(t, this)
    /\ Idle(t, other)
    /\ IF this = other
       THEN UNCHANGED handles
       ELSE handles' = [handles EXCEPT ![this] = handles[other],
                                       ![other] = reset(@, "moved")]
    /\ UNCHANGED <<variant, driver, m_interningMap, heap, th, m_mutex, calls>>

\* operator=(InternedPtr &&other): if (this != &other) { release(); take
\* other's fields; other.reset(); }
InternedPtr_assign(t, this, other) ==
    /\ variant \in HandleDrafts
    /\ Idle(t, this)
    /\ Idle(t, other)
    /\ IF this = other
       THEN UNCHANGED <<handles, th, m_mutex, calls>>
       ELSE IF handles[this].m_owner /\ handles[this].m_ptr # NULL
            THEN /\ th' = [th EXCEPT ![t] = [IdleThread EXCEPT !.pc = "release_cs",
                              !.h = this, !.src = other, !.cont = "assign"]]
                 /\ lock_unique(t)
                 /\ calls' = Invoked
                 /\ UNCHANGED handles
            ELSE /\ handles' = [handles EXCEPT ![this] = handles[other],
                                               ![other] = reset(@, "moved")]
                 /\ UNCHANGED <<th, m_mutex, calls>>
    /\ UNCHANGED <<variant, driver, m_interningMap, heap>>

\* The shared_ptr draft: a caller drops the std::shared_ptr<T> it was given;
\* the value's storage goes with its last owner.
shared_ptr_dtor(t, s) ==
    /\ variant = "shared_ptr"
    /\ Idle(t, s)
    /\ LET p == handles[s].m_ptr
           lastOwner == /\ p # NULL
                        /\ \A k \in Keys : m_interningMap[k] # p
                        /\ \A o \in Slots \ {s} : handles[o].m_ptr # p
       IN heap' = IF lastOwner THEN [heap EXCEPT ![p] = FreeCell] ELSE heap
    /\ handles' = [handles EXCEPT ![s] = NoHandle]
    /\ UNCHANGED <<variant, driver, m_interningMap, m_mutex, th, calls>>

\* ---------------------------------------------------- specifications
Internify_calls(t) ==
    \/ findExisting(t)
    \/ insertNew_lock(t)
    \/ insertNew(t)
    \/ release(t)
    \/ release_erase(t)

Kept_calls(t) ==
    \/ \E v \in Values : internify(t, v, TRUE)
    \/ \E v \in Values : find_call(t, v, TRUE)
    \/ find(t)

Dropped_calls(t) ==
    \/ \E v \in Values : internify(t, v, FALSE)
    \/ \E v \in Values : find_call(t, v, FALSE)
    \/ find(t)

Erase_calls(t) ==
    \/ \E v \in Values : erase_call(t, v)
    \/ erase(t)

InternedPtr_calls(t) ==
    \/ \E s \in Slots : InternedPtr_release(t, s)
    \/ \E s \in Slots : InternedPtr_dtor(t, s)
    \/ \E s \in Slots : InternedPtr_move(t, s)
    \/ \E s, o \in Slots : InternedPtr_assign(t, s, o)

shared_ptr_calls(t) ==
    \/ \E v \in Values : release_call(t, v)
    \/ \E s \in Slots : shared_ptr_dtor(t, s)

\* All three drafts.
Next ==
    \E t \in Threads :
        \/ Internify_calls(t)
        \/ Kept_calls(t)
        \/ Erase_calls(t)
        \/ InternedPtr_calls(t)
        \/ shared_ptr_calls(t)

Spec == Init /\ [][Next]_vars

\* src/unnamed/part_001: InternedPtr handles, no erase.
NextHandle ==
    \E t \in Threads :
        \/ Internify_calls(t)
        \/ Kept_calls(t)
        \/ InternedPtr_calls(t)

InitHandle == Init /\ variant = "handle"

SpecHandle == InitHandle /\ [][NextHandle]_vars

\* The steps a thread takes inside the pool once its call has been made; the
\* scheduler runs a thread that can take one.
Running(t) == Internify_calls(t) \/ find(t)

\* src/unnamed/part_001 under a fair scheduler: a thread that stays able to
\* take its next step inside the pool takes it.  std::shared_mutex promises
\* no order among the threads that wait for it, so a thread waiting for the
\* lock is owed a step only while the lock stays available to it.
SpecHandleFair == SpecHandle /\ \A t \in Threads : WF_vars(Running(t))

\* src/CMakeLists.txt lines 95-277: InternedPtr handles and erase.
NextHandleErase ==
    \E t \in Threads :
        \/ Internify_calls(t)
        \/ Kept_calls(t)
        \/ Erase_calls(t)
        \/ InternedPtr_calls(t)

InitHandleErase == Init /\ variant = "handle_erase"

SpecHandleErase == InitHandleErase /\ [][NextHandleErase]_vars

\* src/CMakeLists.txt lines 95-277 as TEST(InternifyTest, Robustness) uses it
\* up to its last erase: handles are kept while entries are erased.
NextErase ==
    \E t \in Threads :
        \/ findExisting(t)
        \/ insertNew_lock(t)
        \/ insertNew(t)
        \/ Kept_calls(t)
        \/ Erase_calls(t)

SpecErase == InitHandleErase /\ [][NextErase]_vars

\* src/internify.hpp: shared_ptr<T> results, public release and erase.
NextShared ==
    \E t \in Threads :
        \/ Internify_calls(t)
        \/ Kept_calls(t)
        \/ Erase_calls(t)
        \/ shared_ptr_calls(t)

InitShared == Init /\ variant = "shared_ptr"

SpecShared == InitShared /\ [][NextShared]_vars

\* src/internify.hpp with every result dropped as the call returns and the
\* completed internify and release calls counted.
InitCalls == Start([NotCounting EXCEPT !.on = TRUE]) /\ variant = "shared_ptr"

NextPool ==
    \E t \in Threads :
        \/ Internify_calls(t)
        \/ Dropped_calls(t)
        \/ Erase_calls(t)
        \/ \E v \in Values : release_call(t, v)

SpecPool == InitCalls /\ [][NextPool]_vars

\* src/internify.hpp under internify and release calls only, every result
\* dropped, with the completed calls counted.

NextCalls ==
    \E t \in Threads :
        \/ Internify_calls(t)
        \/ \E v \in Values : internify(t, v, FALSE)
        \/ \E v \in Values : release_call(t, v)

SpecCalls == InitCalls /\ [][NextCalls]_vars

\* src/internify.hpp under internify, find and release calls: the callers
\* keep every shared_ptr<T> that find returns and drop the one internify
\* returns.
NextFind ==
    \E t \in Threads :
        \/ Internify_calls(t)
        \/ \E v \in Values : internify(t, v, FALSE)
        \/ \E v \in Values : find_call(t, v, TRUE)
        \/ find(t)
        \/ \E v \in Values : release_call(t, v)

SpecFind == InitShared /\ [][NextFind]_vars

\* The thread of a program that uses the pool from one thread, as the tests
\* outside ThreadSafety and the batch driver do.
Main == 1

\* src/internify.hpp used from one thread, as TEST(InternifyTest, EdgeCases)
\* does: the caller keeps the shared_ptr<T> that internify and find return,
\* calls release and erase, and drops the pointers when it likes.
NextSeq ==
    \/ Internify_calls(Main)
    \/ Kept_calls(Main)
    \/ Erase_calls(Main)
    \/ shared_ptr_calls(Main)

SpecSeq == InitShared /\ [][NextSeq]_vars

\* -------------------------------------------------- the batch driver
\* src/profile/driver.cpp, run by main on a pool of its own.  Its first
\* draft (lines 1-99) uses the InternedPtr pool with erase, its second
\* (lines 101-194) the shared_ptr pool.
DriverDrafts == {"handle_erase", "shared_ptr"}

\* main: an empty pool, handleFileProcessing about to read the first line
InitDriver ==
    /\ variant \in DriverDrafts
    /\ m_interningMap = [k \in Keys |-> NULL]
    /\ heap = [a \in Addr |-> FreeCell]
    /\ m_mutex = Unlocked
    /\ handles = [s \in Slots |-> NoHandle]
    /\ th = [t \in Threads |-> IdleThread]
    /\ calls = NotCounting
    /\ driver = [NoDriver EXCEPT !.pc = "getline"]

\* The multipliers of the input lines.
Counts == (0 - MaxRefs) .. MaxRefs

\* handleFileProcessing: getline, parseInputLine, and the call of
\* processInternifyOperations(internify, base_string, multiplier), which
\* enters one of its loops or neither
drv_getline ==
    /\ driver.pc = "getline"
    /\ driver.lines < MaxLines
    /\ \E v \in Values, n \in Counts :
          /\ n > 0 => IF variant \in HandleDrafts
                      THEN n <= MaxHandles
                      ELSE TotalRefs + n <= MaxRefs
          /\ driver' = [driver EXCEPT
                          !.pc = IF n > 0 THEN "positive"
                                 ELSE IF n < 0 THEN "negative" ELSE "return",
                          !.base_string = v,
                          !.multiplier = n,
                          !.i = 0,
                          !.lines = @ + 1,
                          !.negatives = IF n < 0 THEN @ + 1 ELSE @]
    /\ UNCHANGED <<variant, m_interningMap, heap, m_mutex, handles, th, calls>>

\* multiplier > 0, i < multiplier: internify.internify(base_string) is called
drv_internify ==
    /\ driver.pc = "positive"
    /\ driver.i < driver.multiplier
    /\ th[Main].pc = "idle"
    /\ Reserve(Main, "findExisting_cs", driver.base_string, TRUE)
    /\ lock_shared(Main)
    /\ driver' = [driver EXCEPT !.pc = "internified", !.h = Min(FreeSlots)]
    /\ UNCHANGED <<variant, m_interningMap, heap, calls>>

\* internify has returned.  First draft: internedStrings.push_back(...) moves
\* the InternedPtr into the vector (the slot stands for the element; the
\* moved-from temporary holds nothing).  Second draft: the statement ends and
\* the shared_ptr temporary is destroyed.  Then ++i.  An internify that threw
\* std::bad_alloc is caught nowhere: the program terminates.
drv_internified ==
    /\ driver.pc = "internified"
    /\ th[Main].pc = "idle"
    /\ IF handles[driver.h].state = "obj"
       THEN /\ driver' = [driver EXCEPT !.pc = "positive", !.i = @ + 1,
                                        !.interned[driver.base_string] = @ + 1]
            /\ handles' = IF variant \in HandleDrafts
                          THEN handles
                          ELSE [handles EXCEPT ![driver.h] = NoHandle]
       ELSE /\ driver' = [driver EXCEPT !.pc = "terminated"]
            /\ UNCHANGED handles
    /\ UNCHANGED <<variant, m_interningMap, heap, m_mutex, th, calls>>

\* multiplier < 0, i < -multiplier, first draft:
\* auto internedPtr = internify.find(base_string) is called
drv_find ==
    /\ variant = "handle_erase"
    /\ driver.pc = "negative"
    /\ driver.i < 0 - driver.multiplier
    /\ th[Main].pc = "idle"
    /\ Reserve(Main, "find_cs", driver.base_string, TRUE)
    /\ lock_shared(Main)
    /\ driver' = [driver EXCEPT !.pc = "found", !.h = Min(FreeSlots)]
    /\ UNCHANGED <<variant, m_interningMap, heap, calls>>

\* find has returned: internify.erase(base_string) is called
drv_erase ==
    /\ driver.pc = "found"
    /\ th[Main].pc = "idle"
    /\ th' = [th EXCEPT ![Main] = [IdleThread EXCEPT !.pc = "erase_cs",
                                      !.arg = driver.base_string]]
    /\ lock_unique(Main)
    /\ driver' = [driver EXCEPT !.pc = "erased"]
    /\ UNCHANGED <<variant, m_interningMap, heap, handles, calls>>

\* erase has returned and the loop body ends: ~InternedPtr() of internedPtr
drv_scope_end ==
    /\ driver.pc = "erased"
    /\ InternedPtr_dtor(Main, driver.h)

\* internedPtr is gone: ++i
drv_next_iteration ==
    /\ driver.pc = "erased"
    /\ th[Main].pc = "idle"
    /\ handles[driver.h].state = "none"
    /\ driver' = [driver EXCEPT !.pc = "negative", !.i = @ + 1]
    /\ UNCHANGED <<variant, m_interningMap, heap, m_mutex, handles, th, calls>>

\* multiplier < 0, i < -multiplier, second draft:
\* internify.release(base_string) is called; ++i follows its return
drv_release ==
    /\ variant = "shared_ptr"
    /\ driver.pc = "negative"
    /\ driver.i < 0 - driver.multiplier
    /\ th[Main].pc = "idle"
    /\ th' = [th EXCEPT ![Main] = [IdleThread EXCEPT !.pc = "release_cs",
                                      !.arg = driver.base_string]]
    /\ lock_unique(Main)
    /\ driver' = [driver EXCEPT !.i = @ + 1]
    /\ UNCHANGED <<variant, m_interningMap, heap, handles, calls>>

\* Not the code: the handles of a line outlive processInternifyOperations, as
\* with a vector that is not a local of the function.
drv_return_keeping ==
    /\ \/ driver.pc = "positive" /\ driver.i = driver.multiplier
       \/ driver.pc = "negative" /\ driver.i = 0 - driver.multiplier
    /\ th[Main].pc = "idle"
    /\ driver' = [driver EXCEPT !.pc = "getline"]
    /\ UNCHANGED <<variant, m_interningMap, heap, m_mutex, handles, th, calls>>

\* The loop is over: processInternifyOperations returns.
drv_return ==
    /\ \/ driver.pc = "positive" /\ driver.i = driver.multiplier
       \/ driver.pc = "negative" /\ driver.i = 0 - driver.multiplier
    /\ th[Main].pc = "idle"
    /\ driver' = [driver EXCEPT !.pc = "return"]
    /\ UNCHANGED <<variant, m_interningMap, heap, m_mutex, handles, th, calls>>

\* First draft: the local vector internedStrings is destroyed on return, and
\* with it every InternedPtr it holds.
drv_vector_dtor ==
    /\ driver.pc = "return"
    /\ \E s \in Slots : InternedPtr_dtor(Main, s)

\* Back in handleFileProcessing, at the next getline.
drv_next_line ==
    /\ driver.pc = "return"
    /\ th[Main].pc = "idle"
    /\ \A s \in Slots : handles[s].state = "none"
    /\ driver' = [driver EXCEPT !.pc = "getline"]
    /\ UNCHANGED <<variant, m_interningMap, heap, m_mutex, handles, th, calls>>

NextDriver ==
    \/ drv_getline
    \/ drv_internify
    \/ drv_internified
    \/ drv_find
    \/ drv_erase
    \/ drv_scope_end
    \/ drv_next_iteration
    \/ drv_release
    \/ drv_return
    \/ drv_vector_dtor
    \/ drv_next_line
    \/ Internify_calls(Main)
    \/ find(Main)
    \/ erase(Main)

SpecDriver == InitDriver /\ [][NextDriver]_vars

\* ------------------------------------------------------------ claims
AllIdle == \A t \in Threads : th[t].pc = "idle"

\* A live handle that internify returned.
Returned(hd) == is_valid(hd) /\ hd.by \in {"findExisting", "insertNew", "try_emplace"}

\* InternedPtr::operator==
operator_eq(x, y) == x.m_ptr = y.m_ptr

\* A caller's reference to storage: a valid InternedPtr, a non-null shared_ptr.
Live(hd) == hd.state = "obj" /\ hd.m_ptr # NULL

\* C1: two live handles that internify returned compare equal if and only
\* if they were asked for equal values, colliding hashes included.
C1_EqualIffSameValue ==
    \A s1, s2 \in Slots :
        Returned(handles[s1]) /\ Returned(handles[s2]) =>
            (operator_eq(handles[s1], handles[s2]) <=> handles[s1].forv = handles[s2].forv)

\* C2: the handle internify(v) returned dereferences to a value equal to v,
\* also when the pool already held another value with v's hash.
C2_DerefIsArgument ==
    \A s \in Slots :
        Returned(handles[s]) => Deref(handles[s].m_ptr) = {handles[s].forv}

\* The nodes that hold a value equal to v.
NodesOf(v) == {a \in Addr : heap[a].used /\ heap[a].value = v}

\* The table's entries under v's key.
EntriesFor(v) == {k \in Keys : k = hashValue(v) /\ m_interningMap[k] # NULL}

\* C3: under concurrent internify calls the table never holds two Entries
\* for one value and every node is the table's entry for its value; the
\* handles returned for equal values compare equal; and once all calls have
\* returned, size() counts the value of every live handle exactly once, by
\* the Entry the handle points to.
C3_OneEntryPerValue ==
    /\ \A v \in Values : Cardinality(NodesOf(v)) <= 1
    /\ \A a \in Addr : heap[a].used => m_interningMap[hashValue(heap[a].value)] = a
    /\ \A s1, s2 \in Slots :
          Returned(handles[s1]) /\ Returned(handles[s2])
            /\ handles[s1].forv = handles[s2].forv
          => operator_eq(handles[s1], handles[s2])
    /\ AllIdle =>
          \A s \in Slots : Returned(handles[s]) =>
              /\ Cardinality(EntriesFor(handles[s].forv)) = 1
              /\ m_interningMap[hashValue(handles[s].forv)] = handles[s].m_ptr
              /\ size >= 1

\* C3's case: two threads missed in findExisting for one value, one created
\* the node and the other found the key occupied in insertNew.
C3_Witness ==
    /\ AllIdle
    /\ size = 1
    /\ \E s1, s2 \in Slots :
          /\ Returned(handles[s1]) /\ handles[s1].by = "insertNew"
          /\ Returned(handles[s2]) /\ handles[s2].by = "try_emplace"
          /\ handles[s1].forv = handles[s2].forv

\* Only v has been passed to internify and release so far.
OnlyValue(v) ==
    \A w \in Values \ {v} :
        calls.interned[w] = 0 /\ calls.released[w] = 0 /\ calls.missed[w] = 0

Present(v) == m_interningMap[hashValue(v)] # NULL

\* C4, as stated: when no call is in progress and only v was interned and
\* released, size() counts v if and only if more internify calls than
\* release calls have completed.
C4_AsStated ==
    \A v \in Values :
        AllIdle /\ OnlyValue(v) =>
            (Present(v) <=> calls.interned[v] > calls.released[v])

\* C4, amended: when no call is in progress and only v was interned and
\* released, size() counts v if and only if more internify calls have
\* completed than release calls that found v present; a release of an
\* absent value is a no-op and cancels no later internify.
C4_CountsFoundReleases ==
    \A v \in Values :
        AllIdle /\ OnlyValue(v) =>
            /\ Present(v) <=> calls.interned[v] > calls.released[v] - calls.missed[v]
            /\ Present(v) =>
                 heap[m_interningMap[hashValue(v)]].refCount =
                     calls.interned[v] - (calls.released[v] - calls.missed[v])

\* C4's case: a release found v absent, and v is in the pool although no
\* more internify calls than release calls have completed.
C4_Witness ==
    \E v \in Values :
        /\ AllIdle /\ OnlyValue(v)
        /\ calls.missed[v] >= 1
        /\ calls.interned[v] >= 1
        /\ calls.interned[v] <= calls.released[v]
        /\ Present(v)

\* C5: no valid handle points to an Entry that has left the pool.
C5_NoStaleHandle ==
    \A s \in Slots : is_valid(handles[s]) => ~handles[s].stale

\* C6: two live references obtained for equal values point to the same
\* storage.
C6_SameStorage ==
    \A s1, s2 \in Slots :
        Live(handles[s1]) /\ Live(handles[s2]) /\ handles[s1].forv = handles[s2].forv
          => handles[s1].m_ptr = handles[s2].m_ptr

\* C7: while no thread holds the exclusive lock, every Entry in the table
\* has refCount >= 1.
C7_NoZeroRefCountVisible ==
    m_mutex.writer = NoThread =>
        \A k \in Keys :
            m_interningMap[k] # NULL =>
                heap[m_interningMap[k]].used /\ heap[m_interningMap[k]].refCount >= 1

\* C7's case: a release that found its value has completed, the lock is not
\* held exclusively, a reader is inside and looks at an Entry of the table.
C7_Witness ==
    /\ m_mutex.writer = NoThread
    /\ m_mutex.readers # {}
    /\ \E v \in Values :
          /\ calls.released[v] - calls.missed[v] >= 1
          /\ Present(v)
          /\ \E t \in m_mutex.readers : hashValue(th[t].arg) = hashValue(v)

\* C8: once no call is running and no valid handle is left, the pool is
\* empty.
C8_EmptyAfterDisposal ==
    (AllIdle /\ \A s \in Slots : ~is_valid(handles[s])) => size = 0 /\ TotalRefs = 0

\* C8's case: a handle was released explicitly, every other handle is gone
\* too, and the pool is empty.
C8_Witness ==
    /\ AllIdle
    /\ \A s \in Slots : ~is_valid(handles[s])
    /\ \E s \in Slots : handles[s].by = "released"
    /\ size = 0

\* Handle s is inside the Internify::release its owner object called.
Releasing(s) ==
    \E t \in Threads :
        th[t].pc \in {"release_cs", "release_erase"} /\ th[t].cont # "none" /\ th[t].h = s

\* C9: the references handed out and not yet given back by a call of
\* Internify::release are exactly those of the valid handles: no handle's
\* reference is released twice and none is dropped unreleased, whatever
\* moves, releases and destructions happen; and the release a handle calls
\* reaches the node the handle points to.
C9_ReleasedExactlyOnce ==
    /\ calls.owed = Cardinality({s \in Slots : is_valid(handles[s]) /\ ~Releasing(s)})
    /\ \A s \in Slots : Releasing(s) => is_valid(handles[s])
    /\ \A s \in Slots :
          is_valid(handles[s]) =>
              /\ heap[handles[s].m_ptr].used
              /\ m_interningMap[hashValue(heap[handles[s].m_ptr].value)] = handles[s].m_ptr
    /\ TotalRefs = Cardinality({s \in Slots : is_valid(handles[s])})
                     - Cardinality({t \in Threads : th[t].pc = "release_erase"})

\* C9's case: a reference went from one object to another by a move, and
\* the object that holds it now is inside the one Internify::release made for
\* it; the moved-from object is inert and nothing is owed any more.
C9_Witness ==
    \E s1, s2 \in Slots :
        /\ handles[s1].by = "moved"
        /\ is_valid(handles[s2])
        /\ Releasing(s2)
        /\ calls.owed = 0

\* C10: release() or destruction of a handle that was released or moved
\* from calls nothing: the table, every refCount, the lock and the threads
\* stay as they are.
C10_SecondDisposalIsNoOp ==
    [][\A t \in Threads, s \in Slots :
          (handles[s].state = "obj" /\ ~is_valid(handles[s])
             /\ (InternedPtr_release(t, s) \/ InternedPtr_dtor(t, s)))
          => UNCHANGED <<m_interningMap, heap, m_mutex, th, calls>>]_vars

\* C10's case: release() ran again on a released or moved-from object while
\* the table holds an Entry.
C10_Witness ==
    \E s \in Slots : handles[s].by = "again" /\ size >= 1 /\ TotalRefs >= 1

\* C11: move construction from a valid source leaves the new object with the
\* source's pool and storage, leaves the source with no pool and no storage,
\* and changes neither the table nor any refCount (nor takes a lock).
C11_MoveTransfers ==
    [][\A t \in Threads, other \in Slots :
          (is_valid(handles[other]) /\ InternedPtr_move(t, other)) =>
              LET dst == Min(FreeSlots) IN
              /\ handles'[dst].state = "obj"
              /\ handles'[dst].m_ptr = handles[other].m_ptr
              /\ handles'[dst].m_owner = handles[other].m_owner
              /\ is_valid(handles'[dst])
              /\ handles'[other].state = "obj"
              /\ handles'[other].m_ptr = NULL
              /\ ~handles'[other].m_owner
              /\ \A s \in Slots \ {dst, other} : handles'[s] = handles[s]
              /\ UNCHANGED <<m_interningMap, heap, m_mutex, calls>>]_vars

\* C11's case: the one reference of a node has gone from a source, now
\* moved-from, to another object, and the node still counts one reference.
C11_Witness ==
    /\ AllIdle
    /\ \E s1, s2 \in Slots :
          /\ handles[s1].by = "moved"
          /\ is_valid(handles[s2])
          /\ handles[s2].by = "insertNew"
          /\ heap[handles[s2].m_ptr].refCount = 1

\* C12: find(v) while no Entry holds a value equal to v inserts nothing:
\* it returns an invalid handle and leaves the table and every refCount as
\* they are.
C12_FindAbsentIsMiss ==
    [][\A t \in Threads :
          (th[t].pc = "find_cs" /\ NodesOf(th[t].arg) = {} /\ find(t)) =>
              /\ UNCHANGED <<m_interningMap, heap>>
              /\ ~is_valid(handles'[th[t].h])]_vars

\* C13: in the handle-based pool a find that hits raises the refCount of the
\* Entry it found by exactly one, changes no other Entry and returns a valid
\* handle to that Entry; and the release such a handle makes lowers the
\* refCount of that Entry by exactly one.
C13_FindHitCounts ==
    [][\A t \in Threads :
          /\ (th[t].pc = "find_cs" /\ m_interningMap[hashValue(th[t].arg)] # NULL
                /\ find(t)) =>
                LET it == m_interningMap[hashValue(th[t].arg)] IN
                /\ heap'[it].refCount = heap[it].refCount + 1
                /\ \A a \in Addr \ {it} : heap'[a] = heap[a]
                /\ UNCHANGED m_interningMap
                /\ is_valid(handles'[th[t].h])
                /\ handles'[th[t].h].m_ptr = it
          /\ (th[t].pc = "release_cs" /\ th[t].cont # "none"
                /\ handles[th[t].h].by = "find" /\ release(t)) =>
                LET p == handles[th[t].h].m_ptr IN
                /\ heap'[p].refCount = heap[p].refCount - 1
                /\ \A a \in Addr \ {p} : heap'[a] = heap[a]]_vars

\* C13's case: a handle that find returned made the release that took the
\* refCount of its Entry from one to zero.
C13_Witness ==
    \E t \in Threads :
        /\ th[t].pc = "release_erase"
        /\ th[t].cont # "none"
        /\ handles[th[t].h].by = "find"
        /\ is_valid(handles[th[t].h])
        /\ heap[handles[th[t].h].m_ptr].refCount = 0

\* The pcs at which a thread is inside a critical section of the pool.
InPool == {"findExisting_cs", "insertNew_cs", "find_cs", "release_cs",
           "release_erase", "erase_cs"}

\* C14: release(v) that finds an Entry with refCount c leaves the Entry in
\* the table with refCount c - 1 when c > 1; when c = 1 it removes the Entry
\* in the critical section of the decrement: the thread keeps the exclusive
\* lock from the decrement to the removal, no other thread is inside the pool
\* or takes a step in between, and the removal lowers size() by one.
C14_ReleaseDecrementsOrRemoves ==
    /\ [](\A t \in Threads :
            th[t].pc = "release_erase" =>
                /\ m_mutex = [writer |-> t, readers |-> {}]
                /\ Present(th[t].arg)
                /\ heap[m_interningMap[hashValue(th[t].arg)]].refCount = 0
                /\ \A u \in Threads \ {t} : th[u].pc \notin InPool)
    /\ [][\A t \in Threads :
            LET it == m_interningMap[hashValue(th[t].arg)] IN
            /\ (th[t].pc = "release_cs" /\ th[t].cont = "none" /\ it # NULL
                  /\ th'[t] # th[t]) =>
                  /\ heap'[it].refCount = heap[it].refCount - 1
                  /\ \A a \in Addr \ {it} : heap'[a] = heap[a]
                  /\ UNCHANGED m_interningMap
                  /\ IF heap[it].refCount > 1
                     THEN th'[t].pc = "idle"
                     ELSE /\ heap[it].refCount = 1
                          /\ th'[t].pc = "release_erase"
                          /\ m_mutex' = m_mutex
            /\ th[t].pc = "release_erase" =>
                  /\ th'[t].pc = "idle"
                  /\ \A u \in Threads \ {t} : th'[u] = th[u]
                  /\ m_interningMap' = [m_interningMap EXCEPT ![hashValue(th[t].arg)] = NULL]
                  /\ size' = size - 1]_vars

\* C14's case: a release of v found refCount 2 and left the Entry with 1, and
\* a second release of v has taken it to zero and is about to remove it.
C14_Witness ==
    \E t \in Threads :
        /\ th[t].pc = "release_erase"
        /\ m_mutex.writer = t
        /\ calls.released[th[t].arg] - calls.missed[th[t].arg] = 1
        /\ calls.interned[th[t].arg] = 2

\* C15: a step of release(v) or erase(v) changes only the Entry whose value
\* equals v: every node that holds another value keeps its refCount and its
\* place in the table, colliding hashes included.
C15_OnlyTheEqualEntry ==
    [][\A t \in Threads :
          (th[t].pc \in {"release_cs", "release_erase", "erase_cs"}
             /\ th[t].cont = "none" /\ th'[t] # th[t]) =>
              \A a \in Addr :
                  (heap[a].used /\ heap[a].value # th[t].arg) =>
                      /\ heap'[a] = heap[a]
                      /\ \A k \in Keys : m_interningMap[k] = a => m_interningMap'[k] = a]_vars

\* C16: release(v) and erase(v) while no Entry holds a value equal to v
\* change nothing: the table, size() and every refCount stay as they are.
C16_AbsentIsNoOp ==
    [][\A t \in Threads :
          (th[t].pc \in {"release_cs", "erase_cs"} /\ th[t].cont = "none"
             /\ NodesOf(th[t].arg) = {} /\ th'[t] # th[t]) =>
              /\ UNCHANGED <<m_interningMap, heap>>
              /\ size' = size
              /\ th'[t].pc = "idle"]_vars

\* C17: erase(v) of a present value removes its Entry whatever the refCount
\* and however many handles point to it: the step leaves nothing under v's
\* key, lowers size() by one, keeps every other Entry and every handle's
\* pointer; a find that runs while v is not present misses; so size() is 0
\* once every interned value is erased.
C17_EraseUnconditional ==
    [][\A t \in Threads :
          /\ (th[t].pc = "erase_cs" /\ Present(th[t].arg) /\ th'[t] # th[t]) =>
                /\ m_interningMap' =
                      [m_interningMap EXCEPT ![hashValue(th[t].arg)] = NULL]
                /\ size' = size - 1
                /\ \A a \in Addr \ {m_interningMap[hashValue(th[t].arg)]} :
                      heap'[a] = heap[a]
                /\ \A s \in Slots : handles'[s].m_ptr = handles[s].m_ptr
                                      /\ handles'[s].m_owner = handles[s].m_owner
                /\ th'[t].pc = "idle"
          /\ (th[t].pc = "find_cs" /\ ~Present(th[t].arg) /\ th'[t] # th[t]) =>
                ~is_valid(handles'[th[t].h])]_vars

\* C17's case: an Entry with two outstanding handles was erased; both
\* handles are still valid objects and the pool is empty.
C17_Witness ==
    /\ AllIdle
    /\ size = 0
    /\ \E s1, s2 \in Slots :
          /\ s1 # s2
          /\ is_valid(handles[s1]) /\ handles[s1].stale
          /\ is_valid(handles[s2]) /\ handles[s2].stale
          /\ handles[s1].m_ptr = handles[s2].m_ptr

\* The distinct values that have an outstanding reference: those the valid
\* handles were obtained for.
Outstanding == {handles[s].forv : s \in {x \in Slots : is_valid(handles[x])}}

\* C18: when no call is in progress size() is the number of distinct values
\* with at least one outstanding reference; n pairwise-distinct values
\* interned and retained give size() = n.
C18_SizeCountsDistinctValues ==
    AllIdle => size = Cardinality(Outstanding)

\* The sequential refcounted pool the calls are compared with: per key, the
\* number of outstanding references (0: no Entry).
Count(k) == IF m_interningMap[k] = NULL THEN 0 ELSE heap[m_interningMap[k]].refCount

\* Count(k) in the state the step leads to.
CountNext(k) ==
    IF m_interningMap'[k] = NULL THEN 0 ELSE heap'[m_interningMap'[k]].refCount

OthersKept(k) == \A j \in Keys \ {k} : CountNext(j) = Count(j)

\* The step at which an internify call takes effect: the hit in
\* findExisting, or insertNew.  Sequentially: one more reference, the storage
\* the Entry has, which is the one it had when there was an Entry.
LinIntern(t) ==
    LET k == hashValue(th[t].arg)
        h == th[t].h
    IN /\ th[t].pc \in {"findExisting_cs", "insertNew_cs"}
       /\ th'[t].pc = "idle"
       /\ is_valid(handles'[h])
       /\ CountNext(k) = Count(k) + 1
       /\ handles'[h].m_ptr = m_interningMap'[k]
       /\ Count(k) >= 1 => m_interningMap'[k] = m_interningMap[k]
       /\ th[t].pc = "findExisting_cs" => Count(k) >= 1
       /\ OthersKept(k)

\* The step at which a find call takes effect.  Sequentially: a hit with one
\* more reference when there is an Entry, a miss and no change when not.
LinFind(t) ==
    LET k == hashValue(th[t].arg)
        h == th[t].h
    IN /\ th[t].pc = "find_cs"
       /\ th'[t].pc = "idle"
       /\ IF Count(k) >= 1
          THEN /\ is_valid(handles'[h])
               /\ handles'[h].m_ptr = m_interningMap[k]
               /\ CountNext(k) = Count(k) + 1
          ELSE /\ ~is_valid(handles'[h])
               /\ CountNext(k) = Count(k)
       /\ m_interningMap' = m_interningMap
       /\ OthersKept(k)

\* The step at which the release a handle makes takes effect: fetch_sub.
\* Sequentially: one reference less on the handle's Entry.
LinRelease(t) ==
    /\ th[t].pc = "release_cs"
    /\ th'[t].pc \in {"idle", "release_erase"}
    /\ \E k \in Keys :
          /\ m_interningMap[k] = handles[th[t].h].m_ptr
          /\ Count(k) >= 1
          /\ CountNext(k) = Count(k) - 1
          /\ th'[t].pc = "release_erase" <=> CountNext(k) = 0
          /\ OthersKept(k)

\* Every other step: no count changes, no Entry with references moves, no
\* call returns a reference; a call that ends here ends without one
\* (internify by std::bad_alloc) and a findExisting that goes on to
\* insertNew saw no Entry.
LinNone ==
    /\ \A k \in Keys :
          /\ CountNext(k) = Count(k)
          /\ Count(k) >= 1 => m_interningMap'[k] = m_interningMap[k]
    /\ \A s \in Slots : handles[s].state = "pending" => ~is_valid(handles'[s])
    /\ \A t \in Threads :
          /\ (th[t].pc = "find_cs" /\ th'[t].pc = "idle") =>
                Count(hashValue(th[t].arg)) = 0
          /\ (th[t].pc = "findExisting_cs" /\ th'[t].pc = "insertNew") =>
                Count(hashValue(th[t].arg)) = 0
          /\ (th[t].pc = "release_cs" /\ th'[t] # th[t]) => FALSE

\* C19: the internify, find and release calls that hash to one key (so all
\* calls for one fixed value) are linearizable: every call has one step,
\* taken between its invocation and its return, at which its result and its
\* effect are those of the sequential refcounted pool applied to the state
\* the steps before it left, and no other step changes that state.
C19_Linearizable ==
    [][LinNone \/ \E t \in Threads : LinIntern(t) \/ LinFind(t) \/ LinRelease(t)]_vars

\* C19's case: a thread missed in findExisting and has not yet run insertNew,
\* while another thread's call has created the Entry and holds a reference.
C19_Witness ==
    \E t \in Threads :
        /\ th[t].pc \in {"insertNew", "insertNew_cs"}
        /\ Count(hashValue(th[t].arg)) >= 1
        /\ \E s \in Slots : is_valid(handles[s]) /\ handles[s].forv = th[t].arg

\* C20: between a release's decrement to zero and the removal of the Entry
\* no internify or find is inside the pool, no refCount rises and no handle
\* is returned; a refCount only ever rises on an Entry that is in the table
\* with a positive count and stays there; and a handle that internify or
\* find returns points to an Entry that is in the table, with a positive
\* count, when the call returns.
C20_NoResurrection ==
    /\ [](\A t \in Threads :
            th[t].pc = "release_erase" =>
                /\ m_mutex.writer = t
                /\ m_mutex.readers = {}
                /\ \A u \in Threads \ {t} : th[u].pc \notin InPool)
    /\ [][/\ (\E t \in Threads : th[t].pc = "release_erase") =>
                /\ \A a \in Addr : heap'[a].refCount <= heap[a].refCount
                /\ \A s \in Slots :
                      handles[s].state = "pending" => handles'[s].state = "pending"
          /\ \A a \in Addr :
                heap'[a].refCount > heap[a].refCount /\ heap[a].used =>
                    /\ heap[a].refCount >= 1
                    /\ \E k \in Keys : m_interningMap[k] = a /\ m_interningMap'[k] = a
          /\ \A s \in Slots :
                handles[s].state = "pending" /\ is_valid(handles'[s]) =>
                    /\ m_interningMap'[hashValue(handles'[s].forv)] = handles'[s].m_ptr
                    /\ heap'[handles'[s].m_ptr].used
                    /\ heap'[handles'[s].m_ptr].refCount >= 1]_vars

\* C20's case: a release has taken an Entry's refCount to zero and has not
\* yet removed it, while another thread's internify of a value with that
\* key, which missed in findExisting, waits to run insertNew.
C20_Witness ==
    \E t, u \in Threads :
        /\ th[t].pc = "release_erase"
        /\ Count(hashValue(th[t].arg)) = 0
        /\ Present(th[t].arg)
        /\ th[u].pc = "insertNew"
        /\ hashValue(th[u].arg) = hashValue(th[t].arg)

\* The handles internify returned that the callers still hold.
Retained == {s \in Slots : Returned(handles[s])}

\* C21: when the threads have interned pairwise distinct values and kept
\* every handle, and all calls have returned, size() is the number of values
\* interned (k * n for k threads with n values each).
C21_SizeIsNumberInterned ==
    (/\ AllIdle
     /\ \A s \in Slots : is_valid(handles[s]) => s \in Retained
     /\ \A s1, s2 \in Retained : s1 # s2 => handles[s1].forv # handles[s2].forv)
    => size = Cardinality(Retained)

\* The pcs of a thread inside internify.
InIntern == {"findExisting_cs", "insertNew", "insertNew_cs"}

\* C22: a step of an internify call that does not return a handle changes
\* neither the table nor any refcount nor the references owed; and when the
\* call ends without a handle (std::bad_alloc in insertNew) the caller's
\* variable holds nothing and the thread has let go of the lock.
C22_FailedInternChangesNothing ==
    [][\A t \in Threads :
          (th[t].pc \in InIntern /\ th'[t] # th[t]) =>
             LET h == th[t].h IN
               /\ ~is_valid(handles'[h]) =>
                     UNCHANGED <<m_interningMap, heap, calls>>
               /\ (th'[t].pc = "idle" /\ ~is_valid(handles'[h])) =>
                     /\ th[t].pc = "insertNew_cs"
                     /\ handles'[h] = NoHandle
                     /\ m_mutex'.writer # t
                     /\ t \notin m_mutex'.readers]_vars

\* C22's case: a thread holds the lock in insertNew, where the allocation may
\* fail, after another thread's call created the Entry under its key and
\* holds the one reference to it.
C22_Witness ==
    \E t \in Threads :
       LET it == m_interningMap[hashValue(th[t].arg)] IN
         /\ th[t].pc = "insertNew_cs"
         /\ m_mutex.writer = t
         /\ it # NULL
         /\ heap[it].refCount = 1
         /\ \E s \in Slots : Returned(handles[s]) /\ handles[s].m_ptr = it

\* A thread outside the pool: its call has returned and it holds no lock.
Outside(t) == th[t].pc = "idle" /\ m_mutex.writer # t /\ t \notin m_mutex.readers

OwnsEntry(s) ==
    LET p == handles[s].m_ptr IN
      /\ p # NULL
      /\ ~handles[s].stale
      /\ heap[p].used
      /\ heap[p].refCount >= 1
      /\ \E k \in Keys : m_interningMap[k] = p

\* C24: is_valid / operator bool of a handle that is not in the middle of
\* its own disposal is true exactly when the handle owns a counted reference
\* to an Entry that is in the table, erase calls included.
C24_ValidIffOwnsEntry ==
    \A s \in Slots :
       (handles[s].state = "obj" /\ ~Releasing(s)) =>
          (is_valid(handles[s]) <=> OwnsEntry(s))

\* The valid handles that point to the node at a and whose reference is
\* still counted: a handle whose release has done its fetch_sub and is about
\* to erase the node is valid by its fields until release() resets it.
Holders(a) ==
    {s \in Slots :
        /\ is_valid(handles[s])
        /\ handles[s].m_ptr = a
        /\ ~\E t \in Threads :
              th[t].pc = "release_erase" /\ th[t].cont # "none" /\ th[t].h = s}

\* C25: in the handle pool without erase the refCount of every Entry is the
\* number of valid handles that point to it, in particular whenever no call
\* is in progress; and every valid handle points to an Entry of the table.
C25_RefCountIsHandleCount ==
    /\ \A a \in Addr :
          heap[a].used => heap[a].refCount = Cardinality(Holders(a))
    /\ \A s \in Slots :
          is_valid(handles[s]) =>
             /\ heap[handles[s].m_ptr].used
             /\ \E k \in Keys : m_interningMap[k] = handles[s].m_ptr
    /\ AllIdle =>
          \A k \in Keys :
             m_interningMap[k] # NULL =>
                heap[m_interningMap[k]].refCount =
                   Cardinality({s \in Slots : is_valid(handles[s])
                                    /\ handles[s].m_ptr = m_interningMap[k]})

\* C25's case: no call in progress, and an Entry with refCount 2 to which two
\* handles point, one from internify and one from a find hit.
C25_Witness ==
    /\ AllIdle
    /\ \E s1, s2 \in Slots :
          /\ s1 # s2
          /\ Returned(handles[s1])
          /\ is_valid(handles[s2]) /\ handles[s2].by = "find"
          /\ handles[s1].m_ptr = handles[s2].m_ptr
          /\ heap[handles[s1].m_ptr].refCount = 2

\* The critical sections under std::shared_lock and under std::unique_lock.
SharedSection == {"findExisting_cs", "find_cs"}
ExclusiveSection == {"insertNew_cs", "release_cs", "release_erase", "erase_cs"}

\* Thread t takes the step and holds the lock exclusively: it is the writer,
\* no reader is inside, and no other thread is in a critical section.
StepsExclusively(t) ==
    /\ th'[t] # th[t]
    /\ m_mutex.writer = t
    /\ m_mutex.readers = {}
    /\ \A u \in Threads \ {t} :
          th'[u] = th[u] /\ th[u].pc \notin SharedSection \cup ExclusiveSection

\* C26: a thread in a lookup holds the lock shared and a thread in insertNew,
\* release or erase holds it exclusively, alone; every step that inserts
\* into or removes from the table, creates a node or lowers a refCount is
\* taken by the thread that holds the lock exclusively, and every step that
\* raises a refCount by a thread that holds the lock shared or exclusively.
C26_StructuralChangesExclusive ==
    /\ [](\A t \in Threads :
            /\ th[t].pc \in SharedSection =>
                  t \in m_mutex.readers /\ m_mutex.writer = NoThread
            /\ th[t].pc \in ExclusiveSection =>
                  /\ m_mutex.writer = t
                  /\ m_mutex.readers = {}
                  /\ \A u \in Threads \ {t} :
                        th[u].pc \notin SharedSection \cup ExclusiveSection)
    /\ [][/\ (\/ m_interningMap' # m_interningMap
              \/ \E a \in Addr : heap'[a].used # heap[a].used
              \/ \E a \in Addr : heap'[a].refCount < heap[a].refCount) =>
                 \E t \in Threads : StepsExclusively(t)
          /\ (\E a \in Addr : heap'[a].refCount > heap[a].refCount) =>
                 \E t \in Threads :
                    /\ th'[t] # th[t]
                    /\ \A u \in Threads \ {t} : th'[u] = th[u]
                    /\ \/ t \in m_mutex.readers /\ m_mutex.writer = NoThread
                       \/ m_mutex.writer = t /\ m_mutex.readers = {}]_vars

\* C26's case: two threads hold the lock shared at once, one inside
\* findExisting about to increment the refCount of the Entry it found, the
\* other inside find on the same Entry.
C26_Witness ==
    \E t, u \in Threads :
       /\ t # u
       /\ m_mutex.readers = {t, u}
       /\ th[t].pc = "findExisting_cs"
       /\ th[u].pc = "find_cs"
       /\ m_interningMap[hashValue(th[t].arg)] # NULL
       /\ m_interningMap[hashValue(th[u].arg)] = m_interningMap[hashValue(th[t].arg)]

\* C27: an insertNew that returns a handle and finds the key occupied (an
\* Entry inserted since its findExisting missed) leaves the table as it is,
\* raises that Entry's refCount by one and returns that Entry's storage;
\* one that finds the key free adds one node, with the value and refCount 1,
\* under the key and returns its storage; nothing else changes.
C27_InsertNewJoinsOrCreates ==
    [][\A t \in Threads :
          (/\ th[t].pc = "insertNew_cs"
           /\ th'[t].pc = "idle"
           /\ is_valid(handles'[th[t].h])) =>
             LET v == th[t].arg
                 k == hashValue(v)
                 it == m_interningMap[k]
                 h == th[t].h
             IN IF it # NULL
                THEN /\ m_interningMap' = m_interningMap
                     /\ heap' = [heap EXCEPT ![it].refCount = heap[it].refCount + 1]
                     /\ handles'[h].m_ptr = it
                ELSE \E a \in Addr :
                        /\ ~heap[a].used
                        /\ m_interningMap' = [m_interningMap EXCEPT ![k] = a]
                        /\ heap' = [heap EXCEPT
                                      ![a] = [used |-> TRUE, value |-> v, refCount |-> 1]]
                        /\ handles'[h].m_ptr = a]_vars

\* C27's case: the race has happened; the handle of the insertNew that
\* created the Entry and the handle of the insertNew that found the key
\* occupied point to the same storage, which holds the value once, counted 2.
C27_Witness ==
    \E s1, s2 \in Slots :
       /\ is_valid(handles[s1]) /\ handles[s1].by = "insertNew"
       /\ is_valid(handles[s2]) /\ handles[s2].by = "try_emplace"
       /\ handles[s2].m_ptr = handles[s1].m_ptr
       /\ heap[handles[s1].m_ptr].refCount = 2
       /\ heap[handles[s1].m_ptr].value = handles[s1].forv
       /\ Cardinality({a \in Addr : heap[a].used}) = 1

\* Thread t is inside the release() that a move assignment makes for its
\* destination.
Assigning(t) == th[t].pc \in {"release_cs", "release_erase"} /\ th[t].cont = "assign"

\* C28: a move assignment onto a valid destination releases the
\* destination's reference once: its one fetch_sub lowers the count of the
\* destination's Entry by one and no other count, and the Entry is removed
\* when that was the last reference; the assignment then ends with the
\* destination holding what the source held and the source holding nothing,
\* the source's reference not being counted again; and a move assignment of
\* an object to itself changes nothing.
C28_MoveAssignReleasesThenTransfers ==
    [][/\ \A t \in Threads :
            LET h == th[t].h
                src == th[t].src
                p == handles[h].m_ptr
            IN /\ (Assigning(t) /\ th[t].pc = "release_cs" /\ th'[t] # th[t]) =>
                     /\ is_valid(handles[h]) /\ h # src
                     /\ heap'[p].refCount = heap[p].refCount - 1
                     /\ \A a \in Addr \ {p} : heap'[a] = heap[a]
                     /\ m_interningMap' = m_interningMap
                     /\ th'[t].pc = "release_erase" <=> heap'[p].refCount = 0
               /\ (Assigning(t) /\ th[t].pc = "release_erase" /\ th'[t] # th[t]) =>
                     /\ ~heap'[p].used
                     /\ \A k \in Keys : m_interningMap'[k] # p
                     /\ \A a \in Addr \ {p} : heap'[a] = heap[a]
                     /\ th'[t].pc = "idle"
               /\ (Assigning(t) /\ th'[t].pc = "idle") =>
                     /\ handles'[h].m_ptr = handles[src].m_ptr
                     /\ handles'[h].m_owner = handles[src].m_owner
                     /\ ~is_valid(handles'[src])
                     /\ handles'[src].m_ptr = NULL
                     /\ \A s \in Slots \ {h, src} : handles'[s] = handles[s]
                     /\ m_mutex'.writer # t
       /\ \A t \in Threads : \A s \in Slots :
            InternedPtr_assign(t, s, s) => UNCHANGED vars]_vars

\* C28's case: a move assignment from a valid source is releasing the last
\* reference to its destination's Entry, which is not the source's Entry.
C28_Witness ==
    \E t \in Threads :
       /\ Assigning(t)
       /\ th[t].pc = "release_erase"
       /\ is_valid(handles[th[t].src])
       /\ handles[th[t].src].m_ptr # handles[th[t].h].m_ptr
       /\ heap[handles[th[t].src].m_ptr].refCount = 1

\* C29: the Internify::release that a handle's disposal calls lowers the
\* refCount of no Entry for the handle's value but the one the handle was
\* issued for: the node the handle points to, as long as that node has not
\* been erased.  (After intern(v) -> h1, erase(v), intern(v) -> h2 the
\* disposal of h1 leaves the count of h2's Entry as it is.)
C29_DisposalTouchesOwnEntryOnly ==
    [][\A t \in Threads :
          (th[t].pc = "release_cs" /\ th[t].cont # "none" /\ th'[t] # th[t]) =>
             \A a \in Addr :
                (/\ heap'[a].refCount < heap[a].refCount
                 /\ heap[a].value = handles[th[t].h].forv) =>
                   a = handles[th[t].h].m_ptr /\ ~handles[th[t].h].stale]_vars

\* C30: in the shared_ptr draft a find step changes neither the table nor
\* any node: on a hit the caller gets the pointer stored under the key, a
\* pointer that owns no counted reference, on a miss a null pointer; and a
\* release(v) that finds the Entry lowers its refCount by one and goes on to
\* remove it when the count was 1, whatever pointers find has given out.
C30_FindIsPureRead ==
    [][\A t \in Threads :
          LET it == m_interningMap[hashValue(th[t].arg)]
              h == th[t].h
          IN /\ (th[t].pc = "find_cs" /\ th'[t] # th[t]) =>
                   /\ heap' = heap
                   /\ m_interningMap' = m_interningMap
                   /\ th'[t].pc = "idle"
                   /\ handles'[h].state = "obj"
                   /\ handles'[h].m_ptr = it
                   /\ ~handles'[h].m_owner
             /\ (th[t].pc = "release_cs" /\ th'[t] # th[t] /\ it # NULL) =>
                   /\ heap'[it].refCount = heap[it].refCount - 1
                   /\ heap[it].refCount = 1 => th'[t].pc = "release_erase"]_vars

\* C30's case: find hit and the caller holds the pointer, yet a release(v)
\* has taken the count that internify made to zero and the Entry is gone.
C30_Witness ==
    /\ AllIdle
    /\ size = 0
    /\ \E s \in Slots :
          /\ handles[s].state = "obj"
          /\ handles[s].by = "find"
          /\ handles[s].m_ptr # NULL
          /\ handles[s].stale

\* C31: in the shared_ptr draft a pointer that internify or find returned
\* points to live storage for as long as the caller holds it, and the value
\* there never changes, whatever release and erase calls follow; dropping a
\* pointer changes neither the table (so not size()) nor any refCount; and
\* an Entry leaves the table only in the last step of a release or an erase.
C31_PointerOutlivesEntry ==
    /\ [](\A s \in Slots :
            Live(handles[s]) =>
               heap[handles[s].m_ptr].used /\ heap[handles[s].m_ptr].value \in Values)
    /\ [][/\ \A s \in Slots :
                (Live(handles[s]) /\ handles'[s].state = "obj") =>
                   /\ handles'[s].m_ptr = handles[s].m_ptr
                   /\ heap'[handles[s].m_ptr].value = heap[handles[s].m_ptr].value
          /\ (\E s \in Slots : handles[s].state = "obj" /\ handles'[s].state = "none") =>
                /\ m_interningMap' = m_interningMap
                /\ \A a \in Addr : heap'[a].refCount = heap[a].refCount
          /\ \A k \in Keys :
                (m_interningMap[k] # NULL /\ m_interningMap'[k] # m_interningMap[k]) =>
                   /\ m_interningMap'[k] = NULL
                   /\ \E t \in Threads :
                         /\ th[t].pc \in {"release_erase", "erase_cs"}
                         /\ hashValue(th[t].arg) = k
                         /\ th'[t].pc = "idle"]_vars

\* C31's case: the caller still holds the pointer internify returned for a
\* value whose Entry has since left the table; the storage holds the value,
\* and a later internify has made a new Entry under the key elsewhere.
C31_Witness ==
    /\ AllIdle
    /\ \E s \in Slots :
          LET p == handles[s].m_ptr
              k == hashValue(handles[s].forv)
          IN /\ Live(handles[s])
             /\ handles[s].by = "insertNew"
             /\ handles[s].stale
             /\ heap[p].used /\ heap[p].value = handles[s].forv
             /\ m_interningMap[k] # NULL
             /\ m_interningMap[k] # p

\* The driver has processed a line and stands at the next getline.
AfterLine == driver.pc = "getline" /\ driver.lines >= 1

\* C32: after the driver has processed a line with a positive multiplier the
\* line's value is in the pool, with the references the line acquired.
C32_ReferencesSurviveLine ==
    (AfterLine /\ driver.multiplier > 0) =>
       /\ Present(driver.base_string)
       /\ heap[m_interningMap[hashValue(driver.base_string)]].refCount
             >= driver.multiplier

\* C33: after the driver has processed its first line with a negative
\* multiplier, for a value (the only one interned so far) that earlier lines
\* interned M times with M > |multiplier|, the value is in the pool with
\* M - |multiplier| references.
C33_NegativeLineReleases ==
    LET v == driver.base_string
        M == driver.interned[v]
    IN (/\ AfterLine
        /\ driver.multiplier < 0
        /\ driver.negatives = 1
        /\ M > 0 - driver.multiplier
        /\ \A w \in Values \ {v} : driver.interned[w] = 0) =>
          /\ Present(v)
          /\ heap[m_interningMap[hashValue(v)]].refCount = M + driver.multiplier

\* C34: in the driver no valid handle ever points to an Entry that has left
\* the table, so none is disposed of or dereferenced; while the erase of
\* the negative-count path runs, the object find returned is not valid and
\* the table has no Entry under the key, and the erase step removes
\* nothing; and the destruction of that object at the end of the loop body
\* calls no release.
C34_NoHandleOutlivesItsEntry ==
    /\ [](/\ \A s \in Slots :
               is_valid(handles[s]) =>
                  /\ ~handles[s].stale
                  /\ heap[handles[s].m_ptr].used
                  /\ \E k \in Keys : m_interningMap[k] = handles[s].m_ptr
          /\ (driver.pc = "erased" /\ th[Main].pc = "erase_cs") =>
                /\ handles[driver.h].state = "obj"
                /\ ~is_valid(handles[driver.h])
                /\ m_interningMap[hashValue(th[Main].arg)] = NULL
          /\ driver.pc = "erased" =>
                th[Main].pc \notin {"release_cs", "release_erase"})
    /\ [][(th[Main].pc = "erase_cs" /\ th'[Main].pc = "idle") =>
             /\ m_interningMap' = m_interningMap
             /\ heap' = heap
             /\ handles' = handles]_vars

\* C34's case: the driver is inside erase on a negative line for a value
\* that an earlier line interned; the object find returned is a miss.
C34_Witness ==
    /\ driver.pc = "erased"
    /\ th[Main].pc = "erase_cs"
    /\ driver.interned[driver.base_string] >= 1
    /\ handles[driver.h].state = "obj"
    /\ handles[driver.h].by = "find"
    /\ ~is_valid(handles[driver.h])

====
